---- MODULE Spec2Model ----
(***************************************************************************)
(* State-machine model of the math-tutor backend: the users / chat_sessions *)
(* / chats tables (backend/app/models.py), the signup handler               *)
(* (backend/app/routers/users.py), the session and message handlers         *)
(* (backend/app/routers/chats.py) and the process-wide model instance       *)
(* (backend/app/ml_model.py, backend/app/main.py).                          *)
(*                                                                         *)
(* Each HTTP request runs in a request slot.  A handler is one action per  *)
(* database transaction it commits: other requests may commit between two  *)
(* steps of the same handler.  The response of the request that completed  *)
(* most recently is kept in `last`; a request that has called the model    *)
(* carries the message list it sent until it completes.                    *)
(***************************************************************************)
EXTENDS Integers, Sequences, FiniteSets, TLC

VARIABLES
    app,            \* lifespan phase: "starting", "running", "stopped"
    llm,            \* ml_model.llm: "None" or "Llama"
    users,          \* rows of table users
    sessions,       \* rows of table chat_sessions
    chats,          \* rows of table chats
    nextUserId,     \* primary-key generators
    nextSessionId,
    nextChatId,
    now,            \* datetime.utcnow(), as a logical clock
    req,            \* request slot -> the handler in flight
    last,           \* response of the most recently completed request
    llmCalls,       \* number of llm.create_chat_completion calls made
    promptUser,     \* argument of a get_system_prompt_for_user call
    promptOut       \* its outcome

vars == <<app, llm, users, sessions, chats, nextUserId, nextSessionId,
          nextChatId, now, req, last, llmCalls, promptUser, promptOut>>

db == <<users, sessions, chats, nextUserId, nextSessionId, nextChatId, now>>

----------------------------------------------------------------------------
(* Bounds of the model *)

MaxSessions == 2
MaxChats == 2

Reqs == {"r1", "r2"}
Emails == {"a@x.com", "b@x.com"}
Questions == {"2+2?"}
NewTitles == {"Algebra"}

----------------------------------------------------------------------------
(* Python values *)

\* A Python value read from user.explanation_level: k is its type ("none",
\* "missing" for an absent attribute, "int", "bool", "float" with v in
\* tenths, "inf", "nan", "str" with s its characters, "list").
Raw(k, v, s) == [k |-> k, v |-> v, s |-> s]

PyNone == Raw("none", 0, <<>>)

PyInt(n) == Raw("int", n, <<>>)

Min(a, b) == IF a <= b THEN a ELSE b

\* The title without its number: the column default of chat_sessions.title.
ChatTitleUnnumbered(n) == "New Chat"

\* f"Chat {n}"
ChatTitle(n) == "Chat " \o ToString(n)

----------------------------------------------------------------------------
(* Responses *)

NotFoundDetail == "Session not found or access denied."

Response(op, caller, sid, email, limit, text, status, detail, body) ==
    [op |-> op, caller |-> caller, sid |-> sid, email |-> email,
     limit |-> limit, text |-> text, status |-> status, detail |-> detail,
     body |-> body]

NoResponse == Response("none", 0, 0, "", 0, "", 0, "", <<>>)

\* A request slot: op is the handler, pc the step it is about to take.
\* messages is the list it has passed to llm.create_chat_completion.
Request(op, pc, caller, sid, email, level, title, question, messages, answer) ==
    [op |-> op, pc |-> pc, caller |-> caller, sid |-> sid, email |-> email,
     level |-> level, title |-> title, question |-> question,
     messages |-> messages, answer |-> answer]

Idle == Request("idle", "idle", 0, 0, "", PyNone, "", "", <<>>, "")

----------------------------------------------------------------------------
(* Tables *)

\* User(name, email, password, bio, explanation_level): the columns the
\* handlers below read.
UserRow(id, email, level) ==
    [id |-> id, email |-> email, explanation_level |-> level]

SessionRow(id, user_id, title, created_at) ==
    [id |-> id, user_id |-> user_id, title |-> title, created_at |-> created_at]

ChatRow(id, session_id, question, answer, timestamp) ==
    [id |-> id, session_id |-> session_id, question |-> question,
     answer |-> answer, timestamp |-> timestamp]

\* db.query(User).filter(User.email == email).first()
UserByEmail(email) == {u \in users : u.email = email}

\* The user row of an authenticated caller (get_current_user).
UserOf(caller) == CHOOSE u \in users : u.id = caller

Authenticated(caller) == caller \in {u.id : u \in users}

\* The count without its filter on the owner.
SessionCountAll(uid) == Cardinality(sessions)

\* db.query(ChatSession).filter(ChatSession.user_id == uid).count()
SessionCount(uid) == Cardinality({s \in sessions : s.user_id = uid})

----------------------------------------------------------------------------
(* ml_model.py and the lifespan of main.py *)

\* load_model without its `if llm is None`: every successful call constructs
\* an instance and stores it.
LoadModelReplacing(ok, instance) ==
    llm' = IF ok THEN instance ELSE llm

\* load_model(): loads only when no instance is held; a missing file or a
\* failing constructor leaves llm None.  `instance` is the object Llama(...)
\* constructs.
LoadModel(ok, instance) ==
    llm' = IF llm = "None" /\ ok THEN instance ELSE llm

\* close_model()
CloseModel ==
    llm' = "None"

\* get_llm(): the instance held, or the RuntimeError raised when none is.
GetLlm ==
    IF llm = "None"
      THEN [raised |-> "RuntimeError: ML model is not available.", value |-> ""]
      ELSE [raised |-> "", value |-> llm]

\* lifespan, before the yield
Startup ==
    /\ app = "starting"
    /\ \E ok \in BOOLEAN : LoadModel(ok, "Llama")
    /\ app' = "running"
    /\ UNCHANGED <<db, req, last, llmCalls, promptUser, promptOut>>

\* lifespan, after the yield: the server has drained its requests
Shutdown ==
    /\ app = "running"
    /\ \A r \in Reqs : req[r] = Idle
    /\ CloseModel
    /\ app' = "stopped"
    /\ UNCHANGED <<db, req, last, llmCalls, promptUser, promptOut>>

----------------------------------------------------------------------------
(* routers/chats.py: the system prompt of a user *)

SYSTEM_PROMPT_CONCISE ==
    "You are a math tutor AI. Provide the final answer directly and clearly."

SYSTEM_PROMPT_DETAILED ==
    "You are a helpful AI math tutor. Explain concepts clearly."

SYSTEM_PROMPT_ELABORATE ==
    "You are an explanatory AI math tutor. Your goal is clarity and context."

SYSTEM_PROMPT_COMPREHENSIVE ==
    "You are a comprehensive AI math tutor. Your goal is to ensure deep understanding."

\* prompt_mapping with the prompts of levels 3 and 4 exchanged.
PromptMappingSwapped(level) ==
    CASE level = 1 -> SYSTEM_PROMPT_CONCISE
      [] level = 2 -> SYSTEM_PROMPT_DETAILED
      [] level = 3 -> SYSTEM_PROMPT_COMPREHENSIVE
      [] level = 4 -> SYSTEM_PROMPT_ELABORATE

\* prompt_mapping
PromptMapping(level) ==
    CASE level = 1 -> SYSTEM_PROMPT_CONCISE
      [] level = 2 -> SYSTEM_PROMPT_DETAILED
      [] level = 3 -> SYSTEM_PROMPT_ELABORATE
      [] level = 4 -> SYSTEM_PROMPT_COMPREHENSIVE

DEFAULT_LEVEL_INT == 2

IsSpace(c) == c = " "

IsDigit(c) == c \in {"0", "1", "2", "3", "4", "5", "6", "7", "8", "9"}

DigitValue(c) ==
    CASE c = "0" -> 0 [] c = "1" -> 1 [] c = "2" -> 2 [] c = "3" -> 3
      [] c = "4" -> 4 [] c = "5" -> 5 [] c = "6" -> 6 [] c = "7" -> 7
      [] c = "8" -> 8 [] c = "9" -> 9

RECURSIVE StripChars(_)
\* str.strip() on a sequence of characters
StripChars(s) ==
    IF s = <<>> THEN s
    ELSE IF IsSpace(Head(s)) THEN StripChars(Tail(s))
    ELSE IF IsSpace(s[Len(s)]) THEN StripChars(SubSeq(s, 1, Len(s) - 1))
    ELSE s

RECURSIVE DigitsValue(_, _)
\* the decimal value of a sequence of digits, most significant first
DigitsValue(s, acc) ==
    IF s = <<>> THEN acc ELSE DigitsValue(Tail(s), 10 * acc + DigitValue(Head(s)))

\* An outcome of int(x): the exception raised ("" for none) and the value.
Converted(err, v) == [err |-> err, v |-> v]

\* int(s) for a str: surrounding whitespace, an optional sign, decimal digits.
IntOfStr(s) ==
    LET t == StripChars(s)
        signed == t # <<>> /\ Head(t) \in {"+", "-"}
        digits == IF signed THEN Tail(t) ELSE t
    IN  IF digits # <<>> /\ \A i \in 1..Len(digits) : IsDigit(digits[i])
          THEN Converted("", IF signed /\ Head(t) = "-"
                               THEN 0 - DigitsValue(digits, 0)
                               ELSE DigitsValue(digits, 0))
          ELSE Converted("ValueError", 0)

\* int(x): an int is itself, a bool is 0 or 1, a float is truncated towards
\* zero, an infinity raises OverflowError, a NaN ValueError, a str is parsed,
\* None and a list raise TypeError.
PyIntOf(x) ==
    CASE x.k = "int" -> Converted("", x.v)
      [] x.k = "bool" -> Converted("", x.v)
      [] x.k = "float" -> Converted("", IF x.v >= 0 THEN x.v \div 10
                                                     ELSE 0 - ((0 - x.v) \div 10))
      [] x.k = "inf" -> Converted("OverflowError", 0)
      [] x.k = "nan" -> Converted("ValueError", 0)
      [] x.k = "str" -> IntOfStr(x.s)
      [] OTHER -> Converted("TypeError", 0)

\* An outcome of get_system_prompt_for_user: the exception that escapes it
\* ("" for none) and the prompt returned.
PromptOutcome(raised, prompt) == [raised |-> raised, prompt |-> prompt]

NotCalled == PromptOutcome("pending", "")

\* get_system_prompt_for_user, lines 101-118: the level the prompt is looked
\* up with, or the exception the conversion lets escape.
ExplanationLevelInt(level) ==
    LET raw_level == IF level.k = "missing" THEN PyInt(DEFAULT_LEVEL_INT) ELSE level
        conv == PyIntOf(raw_level)
    IN  IF raw_level.k = "none" THEN Converted("", DEFAULT_LEVEL_INT)
        ELSE IF conv.err \in {"ValueError", "TypeError"}
          THEN Converted("", DEFAULT_LEVEL_INT)
        ELSE IF conv.err # "" THEN conv
        ELSE IF conv.v \notin 1..4 THEN Converted("", DEFAULT_LEVEL_INT)
        ELSE conv

\* get_system_prompt_for_user(user), for the user's explanation_level
GetSystemPromptForUser(level) ==
    LET explanation_level_int == ExplanationLevelInt(level)
    IN  IF explanation_level_int.err # ""
          THEN PromptOutcome(explanation_level_int.err, "")
          ELSE PromptOutcome("", PromptMapping(explanation_level_int.v))

----------------------------------------------------------------------------
(* routers/users.py: signup *)

\* A request is accepted by a free slot of the running application.
Accepts(r) == app = "running" /\ req[r] = Idle

\* UserSignup.explanation_level: Optional[int] = 2, then
\* `user.explanation_level if user.explanation_level is not None else 2`.
SignupLevel(given) == IF given.k = "none" THEN PyInt(2) ELSE given

\* signup without its duplicate-email check.
SignupUnchecked(r, email, level) ==
    /\ Accepts(r)
    /\ req' = [req EXCEPT ![r] =
                 Request("signup", "insert", 0, 0, email,
                         SignupLevel(level), "", "", <<>>, "")]
    /\ last' = last
    /\ UNCHANGED <<app, llm, db, llmCalls, promptUser, promptOut>>

\* signup, lines 48-50: the duplicate-email check.
SignupCheck(r, email, level) ==
    /\ Accepts(r)
    /\ IF UserByEmail(email) # {}
         THEN /\ last' = Response("signup", 0, 0, email, 0, "", 400,
                                  "Email already registered", <<>>)
              /\ req' = req
         ELSE /\ req' = [req EXCEPT ![r] =
                          Request("signup", "insert", 0, 0, email,
                                  SignupLevel(level), "", "", <<>>, "")]
              /\ last' = last
    /\ UNCHANGED <<app, llm, db, llmCalls, promptUser, promptOut>>

\* The users table without its unique index on email.
NoUniqueIndex(email) == FALSE

\* The unique index on users.email (models.py line 14) rejects the insert.
UniqueEmailViolated(email) == UserByEmail(email) # {}

\* signup, lines 64-67 and 91-94: insert the user and commit; any failure
\* rolls back and answers 500.
SignupInsert(r, ok) ==
    /\ req[r].op = "signup" /\ req[r].pc = "insert"
    /\ IF ok /\ ~UniqueEmailViolated(req[r].email)
         THEN /\ users' = users \cup
                    {UserRow(nextUserId, req[r].email, req[r].level)}
              /\ nextUserId' = nextUserId + 1
              /\ req' = [req EXCEPT ![r].pc = "session",
                                    ![r].caller = nextUserId]
              /\ last' = last
         ELSE /\ UNCHANGED <<users, nextUserId>>
              /\ req' = [req EXCEPT ![r] = Idle]
              /\ last' = Response("signup", 0, 0, req[r].email, 0, "", 500,
                                  "Could not create user.", <<>>)
    /\ UNCHANGED <<app, llm, sessions, chats, nextSessionId, nextChatId, now,
                   llmCalls, promptUser, promptOut>>

\* signup without the inner try/except: a failing default-session insert
\* reaches the outer handler and fails the request.
SignupSessionUnguarded(r, ok) ==
    /\ req[r].op = "signup" /\ req[r].pc = "session"
    /\ LET uid == req[r].caller
           first_session_title == ChatTitle(SessionCount(uid) + 1)
       IN  IF ok
             THEN /\ sessions' = sessions \cup
                        {SessionRow(nextSessionId, uid, first_session_title, now)}
                  /\ nextSessionId' = nextSessionId + 1
                  /\ now' = now + 1
                  /\ last' = Response("signup", uid, 0, req[r].email, 0, "",
                                      200, "User created successfully", <<>>)
             ELSE /\ UNCHANGED <<sessions, nextSessionId, now>>
                  /\ last' = Response("signup", uid, 0, req[r].email, 0, "",
                                      500, "Could not create user.", <<>>)
    /\ req' = [req EXCEPT ![r] = Idle]
    /\ UNCHANGED <<app, llm, users, chats, nextUserId, nextChatId,
                   llmCalls, promptUser, promptOut>>

\* signup, lines 70-89: count the new user's sessions, insert the default
\* session; a failure is rolled back and logged, and signup still succeeds.
SignupSession(r, ok) ==
    /\ req[r].op = "signup" /\ req[r].pc = "session"
    /\ LET uid == req[r].caller
           first_session_title == ChatTitle(SessionCount(uid) + 1)
       IN  IF ok
             THEN /\ sessions' = sessions \cup
                        {SessionRow(nextSessionId, uid, first_session_title, now)}
                  /\ nextSessionId' = nextSessionId + 1
                  /\ now' = now + 1
             ELSE UNCHANGED <<sessions, nextSessionId, now>>
    /\ req' = [req EXCEPT ![r] = Idle]
    /\ last' = Response("signup", req[r].caller, 0, req[r].email, 0, "", 200,
                        "User created successfully", <<>>)
    /\ UNCHANGED <<app, llm, users, chats, nextUserId, nextChatId,
                   llmCalls, promptUser, promptOut>>

----------------------------------------------------------------------------
(* routers/chats.py: create_session *)

\* create_session naming the session by the count itself, not the count
\* plus one.
CreateSessionCountOffByOne(r, caller) ==
    /\ Accepts(r)
    /\ Authenticated(caller)
    /\ req' = [req EXCEPT ![r] =
                 Request("create_session", "commit", caller, 0, "", PyNone,
                         ChatTitle(SessionCount(caller)), "", <<>>, "")]
    /\ UNCHANGED <<app, llm, db, last, llmCalls, promptUser, promptOut>>

\* create_session, lines 140-147: count the caller's sessions and name the
\* new one.
CreateSessionCount(r, caller) ==
    /\ Accepts(r)
    /\ Authenticated(caller)
    /\ req' = [req EXCEPT ![r] =
                 Request("create_session", "commit", caller, 0, "", PyNone,
                         ChatTitle(SessionCount(caller) + 1), "", <<>>, "")]
    /\ UNCHANGED <<app, llm, db, last, llmCalls, promptUser, promptOut>>

\* create_session, lines 149-159: insert and commit, or roll back and
\* answer 500.
CreateSessionCommit(r, ok) ==
    /\ req[r].op = "create_session" /\ req[r].pc = "commit"
    /\ LET new_session ==
               SessionRow(nextSessionId, req[r].caller, req[r].title, now)
       IN  IF ok
             THEN /\ sessions' = sessions \cup {new_session}
                  /\ nextSessionId' = nextSessionId + 1
                  /\ now' = now + 1
                  /\ last' = Response("create_session", req[r].caller,
                                      new_session.id, "", 0, "", 201, "",
                                      <<new_session>>)
             ELSE /\ UNCHANGED <<sessions, nextSessionId, now>>
                  /\ last' = Response("create_session", req[r].caller, 0, "",
                                      0, "", 500,
                                      "Failed to create chat session.", <<>>)
    /\ req' = [req EXCEPT ![r] = Idle]
    /\ UNCHANGED <<app, llm, users, chats, nextUserId, nextChatId,
                   llmCalls, promptUser, promptOut>>

----------------------------------------------------------------------------
(* routers/chats.py: the ownership check and the history query *)

\* The session query without its filter on the owner.
SessionById(session_id, user_id) == {s \in sessions : s.id = session_id}

\* db.query(ChatSession).filter(ChatSession.id == session_id,
\*                              ChatSession.user_id == user.id).first()
OwnedSession(session_id, user_id) ==
    {s \in sessions : s.id = session_id /\ s.user_id = user_id}

RECURSIVE OrderByTimestampAsc(_)
\* .order_by(Chat.timestamp.asc()).all()
OrderByTimestampAsc(rows) ==
    IF rows = {} THEN <<>>
    ELSE LET first == CHOOSE c \in rows :
                         \A d \in rows : c.timestamp <= d.timestamp
         IN  <<first>> \o OrderByTimestampAsc(rows \ {first})

\* The query without its limit.
Unlimited(rows, n) == rows

\* .limit(n)
Limit(rows, n) == SubSeq(rows, 1, Min(n, Len(rows)))

\* db.query(Chat).filter(Chat.session_id == session_id)
\*   .order_by(Chat.timestamp.asc()).limit(limit).all()
HistoryQuery(session_id, limit) ==
    Limit(OrderByTimestampAsc({c \in chats : c.session_id = session_id}), limit)

\* Query(50, ...): the default of get_session_history's limit
DefaultLimit == 50

\* the window of add_message_to_session's context query, .limit(10)
HistoryWindow == 10

\* get_session_history, lines 192-222
GetSessionHistory(r, caller, session_id, limit, ok) ==
    /\ Accepts(r)
    /\ Authenticated(caller)
    /\ last' =
         IF OwnedSession(session_id, caller) = {}
           THEN Response("get_session_history", caller, session_id, "", limit,
                         "", 404, NotFoundDetail, <<>>)
         ELSE IF ok
           THEN Response("get_session_history", caller, session_id, "", limit,
                         "", 200, "", HistoryQuery(session_id, limit))
         ELSE Response("get_session_history", caller, session_id, "", limit,
                       "", 500,
                       "Could not retrieve chat history for this session.", <<>>)
    /\ UNCHANGED <<app, llm, db, req, llmCalls, promptUser, promptOut>>

----------------------------------------------------------------------------
(* routers/chats.py: add_message_to_session *)

Message(role, content) == [role |-> role, content |-> content]

RECURSIVE HistoryMessages(_)
\* lines 268-271: each stored exchange with a non-empty question and answer
\* becomes a user turn and an assistant turn.
HistoryMessages(history) ==
    IF history = <<>> THEN <<>>
    ELSE LET chat_item == Head(history)
         IN  (IF chat_item.question # "" /\ chat_item.answer # ""
                THEN <<Message("user", chat_item.question),
                       Message("assistant", chat_item.answer)>>
                ELSE <<>>)
             \o HistoryMessages(Tail(history))

\* lines 267-272
BuildMessages(system_prompt, history, question) ==
    <<Message("system", system_prompt)>>
        \o HistoryMessages(history)
        \o <<Message("user", question)>>

\* An outcome of llm.create_chat_completion: the exception it raises ("" for
\* none), whether it returns a non-empty dict, and the content of each of
\* its choices, as characters.
Completion(raised, truthy, choices) ==
    [raised |-> raised, truthy |-> truthy, choices |-> choices]

RECURSIVE Join(_)
\* the str of a sequence of characters
Join(s) == IF s = <<>> THEN "" ELSE Head(s) \o Join(Tail(s))

\* lines 274-307: the answer stored for a completion
ExtractAnswer(completion) ==
    IF completion.raised # ""
      THEN "Error during response generation. Please check logs. (Details: "
               \o completion.raised \o ")"
    ELSE IF /\ completion.truthy
            /\ Len(completion.choices) > 0
            /\ completion.choices[1] # <<>>
      THEN Join(StripChars(completion.choices[1]))
    ELSE "Sorry, I encountered an issue generating a response. Please try again."

\* add_message_to_session calling the model before it checks the owner.
AddMessageAskModelFirst(r, caller, session_id, question, fetched, completion) ==
    /\ Accepts(r)
    /\ Authenticated(caller)
    /\ IF llm = "None"
         THEN /\ last' = Response("add_message", caller, session_id, "", 0,
                                  question, 500, "Internal Server Error", <<>>)
              /\ UNCHANGED <<req, llmCalls>>
       ELSE IF OwnedSession(session_id, caller) = {}
         THEN /\ last' = Response("add_message", caller, session_id, "", 0,
                                  question, 404, NotFoundDetail, <<>>)
              /\ llmCalls' = llmCalls + 1
              /\ req' = req
       ELSE LET system_prompt ==
                    GetSystemPromptForUser(UserOf(caller).explanation_level).prompt
                recent_history_db ==
                    IF fetched THEN HistoryQuery(session_id, HistoryWindow)
                               ELSE <<>>
                messages ==
                    BuildMessages(system_prompt, recent_history_db, question)
            IN  /\ llmCalls' = llmCalls + 1
                /\ req' = [req EXCEPT ![r] =
                             Request("add_message", "commit", caller, session_id,
                                     "", PyNone, "", question, messages,
                                     ExtractAnswer(completion))]
                /\ last' = last
    /\ UNCHANGED <<app, llm, db, promptUser, promptOut>>

\* add_message_to_session, lines 233-307: the get_llm dependency, the
\* ownership check, the prompt, the context query and the model call.
AddMessageAsk(r, caller, session_id, question, fetched, completion) ==
    /\ Accepts(r)
    /\ Authenticated(caller)
    /\ IF llm = "None"
         THEN /\ last' = Response("add_message", caller, session_id, "", 0,
                                  question, 500, "Internal Server Error", <<>>)
              /\ UNCHANGED <<req, llmCalls>>
       ELSE IF OwnedSession(session_id, caller) = {}
         THEN /\ last' = Response("add_message", caller, session_id, "", 0,
                                  question, 404, NotFoundDetail, <<>>)
              /\ UNCHANGED <<req, llmCalls>>
       ELSE LET system_prompt ==
                    GetSystemPromptForUser(UserOf(caller).explanation_level).prompt
                recent_history_db ==
                    IF fetched THEN HistoryQuery(session_id, HistoryWindow)
                               ELSE <<>>
                messages ==
                    BuildMessages(system_prompt, recent_history_db, question)
            IN  /\ llmCalls' = llmCalls + 1
                /\ req' = [req EXCEPT ![r] =
                             Request("add_message", "commit", caller, session_id,
                                     "", PyNone, "", question, messages,
                                     ExtractAnswer(completion))]
                /\ last' = last
    /\ UNCHANGED <<app, llm, db, promptUser, promptOut>>

\* The save without its rollback: the row of a failed commit stays.
AddMessageCommitNoRollback(r, ok) ==
    /\ req[r].op = "add_message" /\ req[r].pc = "commit"
    /\ LET new_chat_record ==
               ChatRow(nextChatId, req[r].sid, req[r].question, req[r].answer, now)
       IN  /\ chats' = chats \cup {new_chat_record}
           /\ nextChatId' = nextChatId + 1
           /\ now' = now + 1
           /\ last' = IF ok
                        THEN Response("add_message", req[r].caller, req[r].sid,
                                      "", 0, req[r].question, 200, "",
                                      <<new_chat_record>>)
                        ELSE Response("add_message", req[r].caller, req[r].sid,
                                      "", 0, req[r].question, 500,
                                      "Failed to save chat interaction.", <<>>)
    /\ req' = [req EXCEPT ![r] = Idle]
    /\ UNCHANGED <<app, llm, users, sessions, nextUserId, nextSessionId,
                   llmCalls, promptUser, promptOut>>

\* add_message_to_session, lines 309-331: insert the exchange and commit, or
\* roll back and answer 500.  An engine that enforces the foreign key fails
\* the insert for a session deleted meanwhile (ok = FALSE); one that does
\* not stores the row.
AddMessageCommit(r, ok) ==
    /\ req[r].op = "add_message" /\ req[r].pc = "commit"
    /\ LET new_chat_record ==
               ChatRow(nextChatId, req[r].sid, req[r].question, req[r].answer, now)
       IN  IF ok
             THEN /\ chats' = chats \cup {new_chat_record}
                  /\ nextChatId' = nextChatId + 1
                  /\ now' = now + 1
                  /\ last' = Response("add_message", req[r].caller, req[r].sid,
                                      "", 0, req[r].question, 200, "",
                                      <<new_chat_record>>)
             ELSE /\ UNCHANGED <<chats, nextChatId, now>>
                  /\ last' = Response("add_message", req[r].caller, req[r].sid,
                                      "", 0, req[r].question, 500,
                                      "Failed to save chat interaction.", <<>>)
    /\ req' = [req EXCEPT ![r] = Idle]
    /\ UNCHANGED <<app, llm, users, sessions, nextUserId, nextSessionId,
                   llmCalls, promptUser, promptOut>>

----------------------------------------------------------------------------
(* routers/chats.py: update_session_title and delete_session *)

\* update_session_title, lines 349-367
UpdateSessionTitle(r, caller, session_id, title, ok) ==
    /\ Accepts(r)
    /\ Authenticated(caller)
    /\ IF OwnedSession(session_id, caller) = {}
         THEN /\ last' = Response("update_session_title", caller, session_id,
                                  "", 0, title, 404, NotFoundDetail, <<>>)
              /\ sessions' = sessions
       ELSE LET session == CHOOSE s \in OwnedSession(session_id, caller) : TRUE
                renamed == [session EXCEPT !.title = title]
            IN  IF ok
                  THEN /\ sessions' = (sessions \ {session}) \cup {renamed}
                       /\ last' = Response("update_session_title", caller,
                                           session_id, "", 0, title, 200, "",
                                           <<renamed>>)
                  ELSE /\ sessions' = sessions
                       /\ last' = Response("update_session_title", caller,
                                           session_id, "", 0, title, 500,
                                           "Failed to update session title.", <<>>)
    /\ UNCHANGED <<app, llm, users, chats, nextUserId, nextSessionId,
                   nextChatId, now, req, llmCalls, promptUser, promptOut>>

\* The relationship without its cascade.
NoCascade(session_id) == {}

\* cascade="all, delete-orphan" on ChatSession.messages: the rows a delete of
\* the session takes along.
CascadeMessages(session_id) == {c \in chats : c.session_id = session_id}

\* delete_session with a check that tells a session of somebody else (403)
\* from one that does not exist (404).
DeleteSessionLeaky(r, caller, session_id, ok) ==
    /\ Accepts(r)
    /\ Authenticated(caller)
    /\ IF OwnedSession(session_id, caller) = {}
         THEN /\ last' = IF \E s \in sessions : s.id = session_id
                            THEN Response("delete_session", caller, session_id,
                                          "", 0, "", 403, "Access denied.", <<>>)
                            ELSE Response("delete_session", caller, session_id,
                                          "", 0, "", 404, "Session not found.",
                                          <<>>)
              /\ UNCHANGED <<sessions, chats>>
       ELSE IF ok
         THEN /\ sessions' = sessions \ OwnedSession(session_id, caller)
              /\ chats' = chats \ CascadeMessages(session_id)
              /\ last' = Response("delete_session", caller, session_id, "", 0,
                                  "", 204, "", <<>>)
       ELSE /\ UNCHANGED <<sessions, chats>>
            /\ last' = Response("delete_session", caller, session_id, "", 0,
                                "", 500, "Failed to delete session.", <<>>)
    /\ UNCHANGED <<app, llm, users, nextUserId, nextSessionId, nextChatId, now,
                   req, llmCalls, promptUser, promptOut>>

\* delete_session, lines 377-394
DeleteSession(r, caller, session_id, ok) ==
    /\ Accepts(r)
    /\ Authenticated(caller)
    /\ IF OwnedSession(session_id, caller) = {}
         THEN /\ last' = Response("delete_session", caller, session_id, "", 0,
                                  "", 404, NotFoundDetail, <<>>)
              /\ UNCHANGED <<sessions, chats>>
       ELSE IF ok
         THEN /\ sessions' = sessions \ OwnedSession(session_id, caller)
              /\ chats' = chats \ CascadeMessages(session_id)
              /\ last' = Response("delete_session", caller, session_id, "", 0,
                                  "", 204, "", <<>>)
       ELSE /\ UNCHANGED <<sessions, chats>>
            /\ last' = Response("delete_session", caller, session_id, "", 0,
                                "", 500, "Failed to delete session.", <<>>)
    /\ UNCHANGED <<app, llm, users, nextUserId, nextSessionId, nextChatId, now,
                   req, llmCalls, promptUser, promptOut>>

----------------------------------------------------------------------------
(* The application *)

SignupLevels == {PyNone}

UserIds == 1..Cardinality(Emails)

SessionIds == 1..MaxSessions

Limits == {1, 2, DefaultLimit}

Completions ==
    { Completion("", TRUE, << <<" ", "4", " ">> >>),
      Completion("timed out", FALSE, <<>>) }

Init ==
    /\ app = "starting"
    /\ llm = "None"
    /\ users = {}
    /\ sessions = {}
    /\ chats = {}
    /\ nextUserId = 1
    /\ nextSessionId = 1
    /\ nextChatId = 1
    /\ now = 1
    /\ req = [r \in Reqs |-> Idle]
    /\ last = NoResponse
    /\ llmCalls = 0
    /\ promptUser = PyNone
    /\ promptOut = NotCalled

\* The session rows already inserted and those the requests in flight may
\* still insert.
SessionsClaimed ==
    (nextSessionId - 1)
        + Cardinality({r \in Reqs : req[r].op \in {"signup", "create_session"}})

\* The response of a completed request is written to its client before the
\* server takes another step.
Deliver ==
    /\ last # NoResponse
    /\ last' = NoResponse
    /\ UNCHANGED <<app, llm, db, req, llmCalls, promptUser, promptOut>>

Delivered == last = NoResponse

Next ==
    \/ Startup
    \/ Delivered /\ Shutdown
    \/ Deliver
    \/ \E r \in Reqs, e \in Emails, l \in SignupLevels :
          Delivered /\ SessionsClaimed < MaxSessions /\ SignupCheck(r, e, l)
    \/ \E r \in Reqs, ok \in BOOLEAN : Delivered /\ SignupInsert(r, ok)
    \/ \E r \in Reqs, ok \in BOOLEAN : Delivered /\ SignupSession(r, ok)
    \/ \E r \in Reqs, c \in UserIds :
          Delivered /\ SessionsClaimed < MaxSessions /\ CreateSessionCount(r, c)
    \/ \E r \in Reqs, ok \in BOOLEAN : Delivered /\ CreateSessionCommit(r, ok)
    \/ \E r \in Reqs, c \in UserIds, s \in SessionIds, n \in Limits,
          ok \in BOOLEAN : Delivered /\ GetSessionHistory(r, c, s, n, ok)
    \/ \E r \in Reqs, c \in UserIds, s \in SessionIds, q \in Questions,
          fetched \in BOOLEAN, completion \in Completions :
          /\ Delivered
          /\ llmCalls < MaxChats
          /\ AddMessageAsk(r, c, s, q, fetched, completion)
    \/ \E r \in Reqs, ok \in BOOLEAN : Delivered /\ AddMessageCommit(r, ok)
    \/ \E r \in Reqs, c \in UserIds, s \in SessionIds, t \in NewTitles,
          ok \in BOOLEAN : Delivered /\ UpdateSessionTitle(r, c, s, t, ok)
    \/ \E r \in Reqs, c \in UserIds, s \in SessionIds, ok \in BOOLEAN :
          Delivered /\ DeleteSession(r, c, s, ok)

Spec == Init /\ [][Next]_vars

----------------------------------------------------------------------------
(* Properties *)

SessionOps ==
    {"get_session_history", "add_message", "update_session_title",
     "delete_session"}

\* The session exists and belongs to somebody else.
OwnedByAnother(sid, caller) ==
    \E s \in sessions : s.id = sid /\ s.user_id # caller

\* C1, as stated: a request of get_session_history, add_message_to_session,
\* update_session_title or delete_session for a session owned by another
\* user is answered 404 "Session not found or access denied.".
C1_Original ==
    (last.op \in SessionOps /\ OwnedByAnother(last.sid, last.caller))
        => (last.status = 404 /\ last.detail = NotFoundDetail)

\* The answer to a request for somebody else's session: the 404, except that
\* add_message_to_session is answered 500 by its get_llm dependency while no
\* model instance is loaded; either way it returns nothing of the session.
C1_Denied ==
    (last.op \in SessionOps /\ OwnedByAnother(last.sid, last.caller))
        => /\ last.body = <<>>
           /\ IF last.op = "add_message" /\ llm = "None"
                THEN last.status = 500 /\ last.detail = "Internal Server Error"
                ELSE last.status = 404 /\ last.detail = NotFoundDetail

\* A step that renames or deletes a session, or adds a message to it or
\* removes one from it, completes a request of the session's owner.
C1_OwnerActs ==
    /\ \A s \in sessions :
          s \notin sessions'
              => /\ last'.op \in {"update_session_title", "delete_session"}
                 /\ last'.sid = s.id
                 /\ last'.caller = s.user_id
                 /\ last'.status \in {200, 204}
    /\ \A c \in chats' \ chats :
          /\ last'.op = "add_message"
          /\ last'.sid = c.session_id
          /\ \A s \in sessions : s.id = c.session_id => s.user_id = last'.caller
    /\ \A c \in chats \ chats' :
          /\ last'.op = "delete_session"
          /\ last'.sid = c.session_id

\* C1 (amended): a request for a session owned by another user fails with
\* the 404 (add_message_to_session with the 500 of get_llm while no model is
\* loaded) and returns no data, and only a session's owner ever renames or
\* deletes it or posts to it.
C1_OwnershipTotal == []C1_Denied /\ [][C1_OwnerActs]_vars

\* The model is loaded and a user has posted to another user's session: 404.
C1_Witness ==
    /\ last.op = "add_message"
    /\ llm = "Llama"
    /\ OwnedByAnother(last.sid, last.caller)
    /\ last.status = 404

\* C2, as stated: whenever signup returns its success response, the new user
\* owns exactly one session.
C2_Original ==
    (last.op = "signup" /\ last.status = 200)
        => Cardinality({s \in sessions : s.user_id = last.caller}) = 1

\* The step that completes a signup whose user row is committed.
SignupCompletes(r) ==
    req[r].op = "signup" /\ req[r].pc = "session" /\ req'[r] = Idle

\* C2 (amended): a signup with a unique email that has inserted its User row
\* always returns the success response, for a user row with that email, and
\* inserts at most one session, owned by that user: exactly the default
\* session, or none when that insert fails (the failure is logged, not
\* reported).
C2_DefaultSession ==
    [][\A r \in Reqs :
         SignupCompletes(r)
             => /\ last'.op = "signup" /\ last'.status = 200
                /\ last'.email = req[r].email
                /\ \E u \in users' : u.id = req[r].caller /\ u.email = req[r].email
                /\ sessions \subseteq sessions'
                /\ Cardinality(sessions' \ sessions) <= 1
                /\ \A s \in sessions' \ sessions :
                      s.user_id = req[r].caller /\ s.id = nextSessionId
                /\ (sessions' = sessions) = (nextSessionId' = nextSessionId)]_vars

\* A signup has succeeded and its user owns the one default session.
C2_Witness ==
    /\ last.op = "signup" /\ last.status = 200
    /\ Cardinality({s \in sessions : s.user_id = last.caller}) = 1
    /\ \E u \in users : u.id = last.caller /\ u.email = last.email

\* C3: a signup with an email that is registered when the handler looks it up
\* is answered 400 "Email already registered" and creates no User row and no
\* ChatSession row.
C3_DuplicateRejected ==
    [][\A r \in Reqs, e \in Emails, l \in SignupLevels :
         (SignupCheck(r, e, l) /\ \E u \in users : u.email = e)
             => /\ last'.op = "signup"
                /\ last'.status = 400
                /\ last'.detail = "Email already registered"
                /\ users' = users
                /\ sessions' = sessions
                /\ req' = req]_vars

\* A signup was refused for an email that is registered.
C3_Witness ==
    /\ last.op = "signup" /\ last.status = 400
    /\ \E u \in users : u.email = last.email

\* C4: no two User rows have the same email.
C4_EmailUnique ==
    \A u \in users, v \in users : u.email = v.email => u = v

\* Two signups with the same email interleave: one has committed its row
\* and the other, past its check, is about to insert.
C4_Witness ==
    \E r \in Reqs :
        /\ req[r].op = "signup" /\ req[r].pc = "insert"
        /\ \E u \in users : u.email = req[r].email

\* C5: the step in which delete_session succeeds removes the session and
\* exactly its Chat rows; the messages of every other session are kept.
C5_DeleteCascades ==
    [][(last'.op = "delete_session" /\ last'.status = 204 /\ last' # last)
          => /\ chats' = {c \in chats : c.session_id # last'.sid}
             /\ sessions' = {s \in sessions : s.id # last'.sid}
             /\ \E s \in sessions : s.id = last'.sid]_vars

\* A session that held messages has been deleted, messages of another
\* session remain.
C5_Witness ==
    /\ last.op = "delete_session" /\ last.status = 204
    /\ Cardinality(chats) < nextChatId - 1
    /\ chats # {}

\* C6: create_session and signup title the session "Chat {k}", k one more
\* than the number of sessions the caller owns when the handler counts them,
\* and the row inserted carries that title.
C6_SequentialTitle ==
    [][\A r \in Reqs :
         /\ (req[r] = Idle /\ req'[r].op = "create_session")
               => req'[r].title =
                    "Chat " \o ToString(
                        Cardinality({s \in sessions :
                                        s.user_id = req'[r].caller}) + 1)
         /\ (req[r].op = "create_session" /\ req'[r] = Idle)
               => \A s \in sessions' \ sessions :
                     /\ s.title = req[r].title
                     /\ s.user_id = req[r].caller
                     /\ last'.body = <<s>>
         /\ SignupCompletes(r)
               => \A s \in sessions' \ sessions :
                     s.title =
                       "Chat " \o ToString(
                           Cardinality({x \in sessions :
                                           x.user_id = req[r].caller}) + 1)]_vars

\* create_session has returned a session titled "Chat 2" to a user who owned
\* one session.
C6_Witness ==
    /\ last.op = "create_session" /\ last.status = 201
    /\ last.body[1].title = "Chat 2"
    /\ Cardinality({s \in sessions : s.user_id = last.caller}) = 2

\* C8: a history returned for an owned session holds at most `limit` rows,
\* only rows of that session, each once, in ascending timestamp order.
C8_HistoryBounded ==
    (last.op = "get_session_history" /\ last.status = 200)
        => /\ Len(last.body) <= last.limit
           /\ \A i \in 1..Len(last.body) :
                 last.body[i] \in chats /\ last.body[i].session_id = last.sid
           /\ \A i \in 1..Len(last.body), j \in 1..Len(last.body) :
                 i < j => last.body[i].timestamp < last.body[j].timestamp

\* A history was cut at its limit: the session holds more rows than asked.
C8_Witness ==
    /\ last.op = "get_session_history" /\ last.status = 200
    /\ Len(last.body) = last.limit
    /\ Cardinality({c \in chats : c.session_id = last.sid}) > last.limit

----------------------------------------------------------------------------
(* A long conversation: one user, one session that already holds up to      *)
(* MaxPrefill exchanges, and a client that reads the history and posts.     *)

MaxPrefill == 12
MaxLongPosts == 3

LongLevels == {PyInt(1), PyInt(2), PyInt(7)}
LongLimits == {2, DefaultLimit}
LongQuestions == {"3*3?", ""}

LongCompletions ==
    { Completion("", TRUE, << <<" ", "9", " ">> >>),
      Completion("", TRUE, << <<" ">> >>),
      Completion("", TRUE, <<>>),
      Completion("timed out", FALSE, <<>>) }

\* The i-th exchange of the session; the answer of exchange number `blank`
\* is the empty string a whitespace-only completion is stripped to.
PrefillChat(i, blank) ==
    ChatRow(i, 1, "q" \o ToString(i),
            IF i = blank THEN "" ELSE "a" \o ToString(i), i + 1)

InitLong ==
    /\ app = "running"
    /\ llm = "Llama"
    /\ \E level \in LongLevels : users = {UserRow(1, "a@x.com", level)}
    /\ sessions = {SessionRow(1, 1, ChatTitle(1), 1)}
    /\ \E n \in 0..MaxPrefill, blank \in 0..MaxPrefill :
          /\ blank <= n
          /\ chats = {PrefillChat(i, blank) : i \in 1..n}
          /\ nextChatId = n + 1
          /\ now = n + 2
    /\ nextUserId = 2
    /\ nextSessionId = 2
    /\ req = [r \in Reqs |-> Idle]
    /\ last = NoResponse
    /\ llmCalls = 0
    /\ promptUser = PyNone
    /\ promptOut = NotCalled

NextLong ==
    \/ Deliver
    \/ \E n \in LongLimits, ok \in BOOLEAN :
          Delivered /\ GetSessionHistory("r1", 1, 1, n, ok)
    \/ \E q \in LongQuestions, fetched \in BOOLEAN,
          completion \in LongCompletions :
          /\ Delivered
          /\ llmCalls < MaxLongPosts
          /\ AddMessageAsk("r1", 1, 1, q, fetched, completion)
    \/ \E ok \in BOOLEAN : Delivered /\ AddMessageCommit("r1", ok)

SpecLong == InitLong /\ [][NextLong]_vars

----------------------------------------------------------------------------
(* get_system_prompt_for_user on its own: a caller passes a user object    *)
(* whose explanation_level is any Python value.                            *)

MaxLevel == 6

LevelStrings ==
    { <<"3">>, <<" ", "4", " ">>, <<"+", "1">>, <<"-", "2">>, <<"1", "0">>,
      <<"0", "2">>, <<>>, <<" ">>, <<"a">>, <<"3", ".", "5">>, <<"4", "x">> }

PromptInputs ==
    {PyInt(n) : n \in (0 - MaxLevel)..MaxLevel}
        \cup {Raw("bool", b, <<>>) : b \in {0, 1}}
        \cup {Raw("float", f, <<>>) : f \in (0 - 10 * MaxLevel)..(10 * MaxLevel)}
        \cup {Raw("str", 0, s) : s \in LevelStrings}
        \cup {Raw(k, 0, <<>>) : k \in {"none", "missing", "inf", "nan", "list"}}

InitPrompt ==
    /\ app = "starting"
    /\ llm = "None"
    /\ users = {}
    /\ sessions = {}
    /\ chats = {}
    /\ nextUserId = 1
    /\ nextSessionId = 1
    /\ nextChatId = 1
    /\ now = 1
    /\ req = [r \in Reqs |-> Idle]
    /\ last = NoResponse
    /\ llmCalls = 0
    /\ promptUser \in PromptInputs
    /\ promptOut = NotCalled

\* get_system_prompt_for_user(user)
CallPrompt ==
    /\ promptOut = NotCalled
    /\ promptOut' = GetSystemPromptForUser(promptUser)
    /\ UNCHANGED <<app, llm, db, req, last, llmCalls, promptUser>>

\* The caller takes the outcome and comes back with another user.
NextUser ==
    /\ promptOut # NotCalled
    /\ promptUser' \in PromptInputs
    /\ promptOut' = NotCalled
    /\ UNCHANGED <<app, llm, db, req, last, llmCalls>>

NextPrompt ==
    \/ CallPrompt
    \/ NextUser

SpecPrompt == InitPrompt /\ [][NextPrompt]_vars

----------------------------------------------------------------------------
(* Properties of the history window and of the system prompt *)

SessionRows(sid) == {c \in chats : c.session_id = sid}

\* The k rows of a session with the latest timestamps.
MostRecent(rows, k) ==
    {c \in rows : Cardinality({d \in rows : d.timestamp > c.timestamp}) < k}

\* C9, as stated: when a session holds more messages than `limit`,
\* get_session_history returns exactly the `limit` most recent messages,
\* oldest first.
C9_Original ==
    (/\ last.op = "get_session_history" /\ last.status = 200
     /\ Cardinality(SessionRows(last.sid)) > last.limit)
        => last.body =
             OrderByTimestampAsc(MostRecent(SessionRows(last.sid), last.limit))

\* C10, as stated: the list sent to the model is the system prompt, then the
\* up to 10 most recent prior exchanges of the session, oldest first, as
\* user and assistant turns (none when the context query failed), then the
\* new question; it has at most 2*10+2 entries.
C10_Original ==
    \A r \in Reqs :
        req[r].op = "add_message"
            => LET system ==
                       <<Message("system",
                                 GetSystemPromptForUser(
                                     UserOf(req[r].caller).explanation_level).prompt)>>
                   question == <<Message("user", req[r].question)>>
                   recent ==
                       OrderByTimestampAsc(
                           MostRecent(SessionRows(req[r].sid), 10))
               IN  /\ req[r].messages \in
                          {system \o question,
                           system \o HistoryMessages(recent) \o question}
                   /\ Len(req[r].messages) <= 2 * 10 + 2

\* The level a value of explanation_level is equal to, 0 when it is none of
\* 1, 2, 3, 4: Python has 1 == 1.0 == True.
EqualLevel(x) ==
    IF x.k \in {"int", "bool"} /\ x.v \in 1..4 THEN x.v
    ELSE IF x.k = "float" /\ x.v \in {10, 20, 30, 40} THEN x.v \div 10
    ELSE 0

PromptOfLevel(n) ==
    IF n = 1 THEN SYSTEM_PROMPT_CONCISE
    ELSE IF n = 3 THEN SYSTEM_PROMPT_ELABORATE
    ELSE IF n = 4 THEN SYSTEM_PROMPT_COMPREHENSIVE
    ELSE SYSTEM_PROMPT_DETAILED

ConvertedLevel(x) ==
    CASE x.k \in {"int", "bool"} -> IF x.v \in 1..4 THEN x.v ELSE 0
      [] x.k = "float" -> IF x.v \in 10..49 THEN x.v \div 10 ELSE 0
      [] x.k = "str" ->
            CASE x.s = <<"3">> -> 3
              [] x.s = <<" ", "4", " ">> -> 4
              [] x.s = <<"+", "1">> -> 1
              [] x.s = <<"0", "2">> -> 2
              [] OTHER -> 0
      [] OTHER -> 0

----------------------------------------------------------------------------
(* Properties of the model call and of the save *)

\* The completion carries no answer: the call raised, or returned nothing,
\* no choice, or a content that is empty or only whitespace.
Unusable(completion) ==
    \/ completion.raised # ""
    \/ ~completion.truthy
    \/ completion.choices = <<>>
    \/ StripChars(completion.choices[1]) = <<>>

\* The error strings substituted for an answer, for the failure the model
\* call is given here.
PlaceholderAnswers ==
    {"Sorry, I encountered an issue generating a response. Please try again.",
     "Error during response generation. Please check logs. (Details: timed out)"}

\* C11, as stated: when the model call of an add_message_to_session on an
\* owned session raises or returns a completion without usable content, a
\* placeholder error string becomes the answer, and the Chat row saved and
\* returned holds the question and that answer.
C11_Original ==
    [][/\ \A q \in LongQuestions, fetched \in BOOLEAN,
             completion \in LongCompletions :
             (/\ AddMessageAsk("r1", 1, 1, q, fetched, completion)
              /\ llm = "Llama"
              /\ OwnedSession(1, 1) # {}
              /\ Unusable(completion))
                 => /\ req'["r1"].question = q
                    /\ req'["r1"].answer \in PlaceholderAnswers
       /\ AddMessageCommit("r1", TRUE)
             => /\ last'.status = 200
                /\ last'.body[1] \in chats'
                /\ last'.body[1].question = req["r1"].question
                /\ last'.body[1].answer = req["r1"].answer]_vars

\* C12: when the write of add_message_to_session fails, the request is
\* answered 500 "Failed to save chat interaction." and no row of any table
\* is added, changed or removed by it; the steps of the request before the
\* write change no row either.
C12_RollbackOnFailure ==
    [][\A r \in Reqs :
         /\ AddMessageCommit(r, FALSE)
               => /\ last'.op = "add_message"
                  /\ last'.status = 500
                  /\ last'.detail = "Failed to save chat interaction."
                  /\ last'.body = <<>>
                  /\ chats' = chats
                  /\ sessions' = sessions
                  /\ users' = users
                  /\ req'[r] = Idle
         /\ (req[r] = Idle /\ req'[r].op = "add_message")
               => /\ chats' = chats
                  /\ sessions' = sessions
                  /\ users' = users]_vars

\* A save has failed in a session that holds an earlier exchange, which is
\* kept.
C12_Witness ==
    /\ last.op = "add_message"
    /\ last.status = 500
    /\ last.detail = "Failed to save chat interaction."
    /\ \E c \in chats : c.session_id = last.sid

----------------------------------------------------------------------------
(* A session at the default limit of get_session_history: one user whose   *)
(* session already holds about DefaultLimit exchanges, and the client of    *)
(* NextLong.                                                                *)

RoundPrefills == {DefaultLimit - 1, DefaultLimit}

InitRound ==
    /\ app = "running"
    /\ llm = "Llama"
    /\ users = {UserRow(1, "a@x.com", PyInt(2))}
    /\ sessions = {SessionRow(1, 1, ChatTitle(1), 1)}
    /\ \E n \in RoundPrefills :
          /\ chats = {PrefillChat(i, 0) : i \in 1..n}
          /\ nextChatId = n + 1
          /\ now = n + 2
    /\ nextUserId = 2
    /\ nextSessionId = 2
    /\ req = [r \in Reqs |-> Idle]
    /\ last = NoResponse
    /\ llmCalls = 0
    /\ promptUser = PyNone
    /\ promptOut = NotCalled

SpecRound == InitRound /\ [][NextLong]_vars

\* C13, as stated: after add_message_to_session has succeeded on a session,
\* a following get_session_history with the default limit returns the row
\* just saved (same id, question and answer), and that row's timestamp is at
\* least the session's created_at, however long the session is.
C13_Original ==
    (/\ last.op = "get_session_history" /\ last.status = 200
     /\ last.limit = DefaultLimit)
        => \A c \in SessionRows(last.sid) :
              (c.id = nextChatId - 1 /\ c.question \in LongQuestions)
                  => /\ \E i \in 1..Len(last.body) : last.body[i] = c
                     /\ \A s \in sessions :
                           s.id = c.session_id => c.timestamp >= s.created_at

----------------------------------------------------------------------------
(* Properties of the ownership check *)

\* The step answers a session request whose ownership check, made in this
\* step, finds no session with that id owned by the caller: the session does
\* not exist, or it is somebody else's.
ChecksNotOwned ==
    /\ last' # last
    /\ last'.op \in SessionOps
    /\ req' = req
    /\ ~\E s \in sessions : s.id = last'.sid /\ s.user_id = last'.caller

\* C14, as stated: the answer to a request for a session that does not exist
\* and the answer to one for a session of another user are the same 404
\* "Session not found or access denied.".
C14_Original ==
    [][ChecksNotOwned
          => (last'.status = 404 /\ last'.detail = NotFoundDetail)]_vars

\* C14 (amended): the answer to a request for a session the caller does not
\* own is determined by the handler and by whether a model instance is
\* loaded, never by whether the session exists: it is the 404 "Session not
\* found or access denied.", and for add_message_to_session while no model is
\* loaded the 500 of get_llm; it carries no data.
C14_Indistinguishable ==
    [][ChecksNotOwned
          => /\ last'.body = <<>>
             /\ IF last'.op = "add_message" /\ llm = "None"
                  THEN /\ last'.status = 500
                       /\ last'.detail = "Internal Server Error"
                  ELSE /\ last'.status = 404
                       /\ last'.detail = NotFoundDetail]_vars

\* A caller was refused a session id that does not exist while another
\* user's session does.
C14_Witness ==
    /\ last.op = "delete_session"
    /\ last.status = 404
    /\ ~\E s \in sessions : s.id = last.sid
    /\ \E s \in sessions : s.user_id # last.caller

----------------------------------------------------------------------------
(* ml_model.py called in any order: besides the lifespan, any code of the  *)
(* process may call load_model, close_model and get_llm, while one user     *)
(* posts to the one session they own.                                      *)

\* The objects Llama(...) may construct.
Instances == {"Llama", "Llama (reloaded)"}

\* The outcome of a call of ml_model: the instance held before the call,
\* the value returned and the exception raised.
ModelResponse(op, before, returned, raised) ==
    Response(op, 0, 0, "", 0, returned, 0, raised, <<before>>)

\* load_model(); a constructed object is never the one already held.
CallLoadModel(ok, instance) ==
    /\ instance # llm
    /\ LoadModel(ok, instance)
    /\ last' = ModelResponse("load_model", llm, "", "")
    /\ UNCHANGED <<app, db, req, llmCalls, promptUser, promptOut>>

\* close_model()
CallCloseModel ==
    /\ CloseModel
    /\ last' = ModelResponse("close_model", llm, "", "")
    /\ UNCHANGED <<app, db, req, llmCalls, promptUser, promptOut>>

\* get_llm()
CallGetLlm ==
    /\ last' = ModelResponse("get_llm", llm, GetLlm.value, GetLlm.raised)
    /\ UNCHANGED <<app, llm, db, req, llmCalls, promptUser, promptOut>>

InitModel ==
    /\ app = "starting"
    /\ llm = "None"
    /\ users = {UserRow(1, "a@x.com", PyInt(2))}
    /\ sessions = {SessionRow(1, 1, ChatTitle(1), 1)}
    /\ chats = {}
    /\ nextUserId = 2
    /\ nextSessionId = 2
    /\ nextChatId = 1
    /\ now = 2
    /\ req = [r \in Reqs |-> Idle]
    /\ last = NoResponse
    /\ llmCalls = 0
    /\ promptUser = PyNone
    /\ promptOut = NotCalled

NextModel ==
    \/ Delivered /\ Startup
    \/ Delivered /\ Shutdown
    \/ Deliver
    \/ \E ok \in BOOLEAN, instance \in Instances :
          Delivered /\ CallLoadModel(ok, instance)
    \/ Delivered /\ CallCloseModel
    \/ Delivered /\ CallGetLlm
    \/ \E q \in Questions, fetched \in BOOLEAN, completion \in Completions :
          /\ Delivered
          /\ llmCalls < MaxChats
          /\ AddMessageAsk("r1", 1, 1, q, fetched, completion)
    \/ \E ok \in BOOLEAN : Delivered /\ AddMessageCommit("r1", ok)

SpecModel == InitModel /\ [][NextModel]_vars

\* After a call of load_model made while an instance was held, that
\* instance is still the one held; get_llm returns the instance held, and
\* raises exactly when none is; after close_model none is held.
ModelCallOutcome ==
    /\ (last.op = "load_model" /\ last.body[1] # "None") => llm = last.body[1]
    /\ last.op = "get_llm"
          => /\ llm = last.body[1]
             /\ IF llm = "None"
                  THEN /\ last.text = ""
                       /\ last.detail = "RuntimeError: ML model is not available."
                  ELSE /\ last.text = llm
                       /\ last.detail = ""
    /\ last.op = "close_model" => llm = "None"

\* An instance is constructed only when none is held (a held instance is
\* never exchanged for another), the lifespan releases it at shutdown, and
\* a request reaches the model only while an instance is held.
ModelHeld ==
    /\ (llm # "None" /\ llm' # "None") => llm' = llm
    /\ (app = "running" /\ app' = "stopped") => llm' = "None"
    /\ llmCalls' # llmCalls => llm # "None"

\* C15: in any sequence of load_model, close_model and get_llm calls,
\* load_model while an instance is loaded does not replace it, get_llm
\* returns the instance exactly when one is loaded and raises otherwise, and
\* after close_model (which the lifespan calls at shutdown) no instance is
\* held.
C15_ModelLifecycle == []ModelCallOutcome /\ [][ModelHeld]_vars

\* load_model was called while an instance was held, and after an earlier
\* close_model: the instance held is the reloaded one, and it was kept.
C15_Witness ==
    /\ last.op = "load_model"
    /\ last.body[1] = "Llama (reloaded)"
    /\ llm = "Llama (reloaded)"

----------------------------------------------------------------------------
(* Concurrent create_session requests of one user, signed up and holding    *)
(* the default session.                                                     *)

MaxRaceSessions == 5

InitRace ==
    /\ app = "running"
    /\ llm = "Llama"
    /\ users = {UserRow(1, "a@x.com", PyInt(2))}
    /\ sessions = {SessionRow(1, 1, ChatTitle(1), 1)}
    /\ chats = {}
    /\ nextUserId = 2
    /\ nextSessionId = 2
    /\ nextChatId = 1
    /\ now = 2
    /\ req = [r \in Reqs |-> Idle]
    /\ last = NoResponse
    /\ llmCalls = 0
    /\ promptUser = PyNone
    /\ promptOut = NotCalled

NextRace ==
    \/ Deliver
    \/ \E r \in Reqs :
          /\ Delivered
          /\ SessionsClaimed < MaxRaceSessions
          /\ CreateSessionCount(r, 1)
    \/ \E r \in Reqs, ok \in BOOLEAN : Delivered /\ CreateSessionCommit(r, ok)

SpecRace == InitRace /\ [][NextRace]_vars

\* Two sessions of one user carry the same title.
TitleTwice ==
    \E s \in sessions, t \in sessions :
        s.id # t.id /\ s.user_id = t.user_id /\ s.title = t.title

\* Another create_session of the same user has committed since request r
\* counted the user's sessions.
Interleaved(r) ==
    req[r].title # ChatTitle(SessionCount(req[r].caller) + 1)

\* C16: a create_session that commits without another creation of the same
\* user having committed since it counted gives its session a title none of
\* the user's sessions has: a title is assigned twice only by requests that
\* interleave (and then it may be, see C16_Witness).
C16_TitleRace ==
    [][\A r \in Reqs :
         (/\ req[r].op = "create_session"
          /\ req'[r] = Idle
          /\ ~Interleaved(r))
             => \A s \in sessions' \ sessions :
                   /\ s.title = req[r].title
                   /\ ~\E t \in sessions :
                         t.user_id = s.user_id /\ t.title = s.title]_vars

\* Two requests that both counted one session have both committed: the user
\* owns two sessions titled "Chat 2".
C16_Witness ==
    /\ last.op = "create_session" /\ last.status = 201
    /\ Cardinality({s \in sessions : s.user_id = 1 /\ s.title = "Chat 2"}) = 2
    /\ TitleTwice

----------------------------------------------------------------------------
(* Properties of requests that race with a delete *)

WriteOps == {"add_message", "update_session_title", "delete_session"}

\* C18: a request of add_message_to_session, update_session_title or
\* delete_session that fails the ownership check (it is answered the 404)
\* leaves every User, ChatSession and Chat row as it was, starts nothing, and
\* does not call the model; the model is only ever called for a request
\* whose caller owns the session.
C18_DeniedNoEffect ==
    [][/\ (last' # last /\ last'.op \in WriteOps /\ last'.status = 404)
             => /\ ~\E s \in sessions :
                      s.id = last'.sid /\ s.user_id = last'.caller
                /\ users' = users
                /\ sessions' = sessions
                /\ chats' = chats
                /\ req' = req
                /\ llmCalls' = llmCalls
       /\ llmCalls' # llmCalls
             => \E r \in Reqs :
                   /\ req'[r] # req[r]
                   /\ req'[r].op = "add_message"
                   /\ \E s \in sessions :
                         s.id = req'[r].sid /\ s.user_id = req'[r].caller]_vars

\* A post to a session of another user was refused after the model had
\* answered the owner: the one call made is the owner's.
C18_Witness ==
    /\ last.op = "add_message"
    /\ last.status = 404
    /\ \E s \in sessions : s.id = last.sid /\ s.user_id # last.caller
    /\ llmCalls = 1
    /\ Cardinality(chats) = 1

----------------------------------------------------------------------------
(* One user who creates and deletes sessions, a request at a time, and      *)
(* never renames one; signup has left the user the default session, or     *)
(* none when its insert failed.                                            *)

InitTitles ==
    /\ app = "running"
    /\ llm = "Llama"
    /\ users = {UserRow(1, "a@x.com", PyInt(2))}
    /\ \E k \in 0..1 :
          /\ sessions = {SessionRow(i, 1, ChatTitle(i), i) : i \in 1..k}
          /\ nextSessionId = k + 1
          /\ now = k + 1
    /\ chats = {}
    /\ nextUserId = 2
    /\ nextChatId = 1
    /\ req = [r \in Reqs |-> Idle]
    /\ last = NoResponse
    /\ llmCalls = 0
    /\ promptUser = PyNone
    /\ promptOut = NotCalled

NextTitles ==
    \/ Deliver
    \/ /\ Delivered
       /\ SessionsClaimed < MaxRaceSessions
       /\ CreateSessionCount("r1", 1)
    \/ \E ok \in BOOLEAN : Delivered /\ CreateSessionCommit("r1", ok)
    \/ \E s \in 1..MaxRaceSessions, ok \in BOOLEAN :
          Delivered /\ DeleteSession("r1", 1, s, ok)

SpecTitles == InitTitles /\ [][NextTitles]_vars

\* C19, as stated: after any sequence of create_session and delete_session
\* calls made one at a time by a user who renames nothing, the titles of the
\* sessions the user owns are pairwise distinct.
C19_Original == ~TitleTwice

\* C19 (amended): as long as the user has deleted no session, the titles of
\* the sessions they own are pairwise distinct, "Chat 1" to "Chat n" for the
\* n sessions created; after a delete_session, create_session may give a new
\* session the title of a live one.
C19_DistinctUntilDelete ==
    Cardinality(sessions) = nextSessionId - 1
        => /\ ~TitleTwice
           /\ {s.title : s \in sessions}
                  = {ChatTitle(n) : n \in 1..Cardinality(sessions)}

\* Three sessions created one after the other, none deleted.
C19_Witness ==
    /\ last.op = "create_session" /\ last.status = 201
    /\ last.body[1].title = "Chat 3"
    /\ Cardinality(sessions) = 3
    /\ nextSessionId = 4

====
